---------------------------- MODULE Spec2Model ----------------------------
(***************************************************************************)
(* State-machine model of the WhatsApp automation service:                 *)
(*   SessionManager  (src/src/session/sessionManager.ts)                   *)
(*   JobQueue        (src/src/queue/jobQueue.ts)                           *)
(*   BrowserManager  (src/src/browser/browserManager.ts)                   *)
(*   bootstrap       (src/unnamed/part_001, index.ts)                      *)
(*                                                                         *)
(* Node runs every callback to its next await without interruption, so one *)
(* action of the model is the code between two awaits of one callback.     *)
(* The page (DOM) and the clock are the environment.                       *)
(***************************************************************************)
EXTENDS Integers, FiniteSets, Sequences, TLC

\* ------------------------------------------------------------ bounds
\* Polling-tick callbacks that may be in flight at once (setInterval does
\* not wait for the previous async callback).
MaxTicks == 2
\* Quarantine timers that may be outstanding at once.
MaxTimers == 2
\* Clock steps the environment may take.
MaxNow == 1
\* Milliseconds per clock step.
TimeStep == 300001
\* Distinct QR payloads the login page may show.
MaxQr == 1
\* Clock steps already elapsed when the process starts.
Epoch == 2
\* 'restart_required' listeners that may be in flight at once.
MaxRestarts == 2
\* UTC days after the first that the queue worker sees.
MaxDay == 1
\* Job attempts the queue supplies on one day beyond that day's limit.
MaxOver == 1
\* Days of operation for which the ramp is tabulated.
MaxRampDays == 100
\* QR access tokens that may be issued.
MaxTokens == 2
\* GET /qr requests that may be in flight at once.
MaxReaders == 2
\* Heartbeat probes that may be in flight at once.
MaxBeats == 1
\* jobs in the queue
MaxJobs == 2
\* chrome processes alive at a time
MaxChromes == 2

\* ------------------------------------------------- program constants
FAILURE_THRESHOLD == 5
RESET_TIMEOUT == 300000
\* Milliseconds per day, jobQueue.ts line 65.
\* POST /admin/generate-qr-token, part_002 line 71: requests per hour
QrRateLimit == 5

\* defaultJobOptions of the queue, jobQueue.ts line 32
attempts == 3

\* connectRedisWithBackoff(retries = 5, delay = 1000), part_001 line 27
retries == 5
delay == 1000

DayMs == 86400000

VARIABLES
    \* SessionManager fields
    state, qrCode, isSending, failureCount, lastFailureTime,
    \* SessionManager callbacks: interval started, polling ticks in flight
    \* (how many are at each await), quarantine timers waiting and at their
    \* page.content(), the sendMessage call in progress or its last result
    boot, ticks, qTimers, qSnapshot, sendPc,
    \* failures since the last successful delivery or cooldown reset
    consec,
    \* whether consec is recorded
    track,
    \* environment: clock step, whether the page body shows the ban text
    now, banText,
    \* JobQueue.isPaused, the BullMQ worker's paused flag, redis key wa:banned
    isPaused, workerPaused, banFlag,
    \* 'banned' listeners in flight (the awaits at which there is one or
    \* more), and whether one has run to its end
    bannedH, banHandled,
    \* BrowserManager fields (TRUE: not null), and the position of each
    \* 'restart_required' listener of bootstrap
    browser, page, isClosing, restart,
    \* queue worker: UTC day of the clock, position of the processor, its
    \* locals today and dynamicLimit, redis keys wa:start-date (-1: absent)
    \* and wa:daily-cap:<day>, attempts handed to jobProcessor on each day
    day, wpc, wToday, wLimit, startDate, dailyCount, handed,
    \* the #pane-side sample of the last checkAuth ("off": not recorded)
    lastPane,
    \* heartbeat probes in flight, and how the last one ended
    heartbeats, hbLast,
    \* bootstrap: redis pings made, the delay of the next wait, whether a
    \* ping was answered
    pingTries, pingDelay, redisOk,
    \* redis keys wa:qr-token:active (0: absent) and qr-token:<t> (the set
    \* of t with a key), the rate-limit counter of the one admin key and
    \* address, the POST /admin/generate-qr-token and GET /qr requests in
    \* flight, the replies redis owes in the order of the commands, the
    \* number of times each token was answered with the QR, and whether
    \* the client waits for each answer before its next request
    qrActive, qrValid, qrUsage, issue, reader, redisQ, served, qrSerial,
    \* the value of ADMIN_KEY in the environment (0: not set)
    adminKey,
    \* BullMQ: each job's status, attempts made and last error; what each
    \* processing slot of the worker is doing
    jobs, run,
    \* chrome processes launched by this process and alive
    chromes

sessVars == <<state, qrCode, isSending, failureCount, lastFailureTime,
              boot, ticks, qTimers, qSnapshot, sendPc, consec, track,
              lastPane>>
envVars == <<now, banText>>
queueVars == <<isPaused, workerPaused>>
banVars == <<banFlag, bannedH, banHandled>>
coordVars == <<browser, page, isClosing, restart>>
capVars == <<day, wpc, wToday, wLimit, startDate, dailyCount, handed>>
beatVars == <<heartbeats, hbLast>>
pingVars == <<pingTries, pingDelay, redisOk>>
qrVars == <<qrActive, qrValid, qrUsage, issue, reader, redisQ, served,
            qrSerial, adminKey>>
jobVars == <<jobs, run>>
extVars == <<beatVars, pingVars, qrVars, jobVars, chromes>>
vars == <<sessVars, envVars, queueVars, banVars, coordVars, capVars, extVars>>

Handlers == 1..MaxRestarts

\* Token requests: request i creates token i.
Issuers == 1..MaxTokens
Readers == 1..MaxReaders
\* x-admin-key header values: the one ADMIN_KEY has when set, and another.
AdminKeys == {1, 2}
IdleIssue ==
    [pc |-> "idle", key |-> 0, n |-> 0, tok |-> 0, old |-> 0, res |-> "none"]
IdleRead == [pc |-> "idle", tok |-> 0, valid |-> FALSE, res |-> "none"]

SessionState == {"INIT", "QR_PENDING", "AUTHENTICATED", "DISCONNECTED",
                 "RECONNECTING", "SUSPECTED_BAN", "BANNED", "CIRCUIT_OPEN"}

\* Awaits of one polling tick: page.reload(), page.$('#pane-side') of the
\* AUTHENTICATED branch, the probes of checkQR, the probes of checkAuth.
TickPcs == {"reload", "probe", "checkQR", "checkAuth"}

NoTicks == [p \in TickPcs |-> 0]

Min(a, b) == IF a < b THEN a ELSE b

RECURSIVE SumOver(_, _)
SumOver(f, S) ==
    IF S = {} THEN 0
    ELSE LET x == CHOOSE y \in S : TRUE IN f[x] + SumOver(f, S \ {x})

TicksInFlight == SumOver(ticks, TickPcs)

TickMove(from, to) == [ticks EXCEPT ![from] = @ - 1, ![to] = @ + 1]
TickEnd(from) == [ticks EXCEPT ![from] = @ - 1]
TickBegin(to) == [ticks EXCEPT ![to] = @ + 1]

\* Date.now()
DateNow == now * TimeStep


QuarantineInFlight == qTimers + qSnapshot

\* ------------------------------------------------------- SessionManager

\* SendGuard with the last guard testing for the states known to be
\* unauthenticated instead of for AUTHENTICATED.
SendGuard_Listed(s) ==
    IF s = "BANNED" THEN "Account BANNED"
    ELSE IF s = "CIRCUIT_OPEN" THEN "Circuit Open - Too many failures"
    ELSE IF s \in {"INIT", "QR_PENDING", "DISCONNECTED"}
      THEN "Session not authenticated"
    ELSE "none"

\* sendMessage, lines 191-196: the error thrown by the guards, "none" if the
\* call is admitted.
SendGuard(s) ==
    IF s = "BANNED" THEN "Account BANNED"
    ELSE IF s = "CIRCUIT_OPEN" THEN "Circuit Open - Too many failures"
    ELSE IF s # "AUTHENTICATED" THEN "Session not authenticated"
    ELSE "none"

SendErrors == {"Account BANNED", "Circuit Open - Too many failures",
               "Session not authenticated"}

\* handleFailure tripping one failure late.
TripState_Late(c, s) == IF c > FAILURE_THRESHOLD THEN "CIRCUIT_OPEN" ELSE s

\* handleFailure: the state after a failure that brought the counter to c.
TripState(c, s) == IF c >= FAILURE_THRESHOLD THEN "CIRCUIT_OPEN" ELSE s

\* monitorInterval, line 152.
CooldownElapsed == DateNow - lastFailureTime > RESET_TIMEOUT

\* QuarantineOutcome with a cleared suspicion restoring the authenticated
\* state.
QuarantineOutcome_Restore(confirmed) ==
    IF confirmed THEN "BANNED" ELSE "AUTHENTICATED"

\* Quarantine timer, lines 122-132: the state set from the re-verification
\* sample.
QuarantineOutcome(confirmed) == IF confirmed THEN "BANNED" ELSE "INIT"

\* checkAuth, line 109.
BanSuspected(hasBanText, hasMainPane, s) ==
    hasBanText /\ ~hasMainPane /\ s # "SUSPECTED_BAN"

\* PaneAuthenticates without the look at the sample.
PaneAuthenticates_Unseen(paneSide, s) == s # "AUTHENTICATED"

\* checkAuth, line 138: the second sample of #pane-side authenticates.
PaneAuthenticates(paneSide, s) == paneSide /\ s # "AUTHENTICATED"

\* The QR kept when authentication is detected.
QrAfterAuth_Kept(q) == q

\* checkAuth, line 140: the QR is dropped when authentication is detected
\* (0 stands for null).
QrAfterAuth(q) == 0

\* What checkAuth's last run saw at line 138, where that is recorded.
Sampled(seen) == IF lastPane = "off" THEN "off" ELSE seen

\* SessionManager.init: browser init and page.goto succeed, the two
\* intervals are started.
SessionInitOk ==
    /\ boot = "constructed"
    /\ boot' = "running"
    /\ browser' = TRUE
    /\ page' = TRUE
    /\ ~browser => chromes < MaxChromes
    /\ chromes' = (IF browser THEN chromes ELSE chromes + 1)
    /\ UNCHANGED <<state, qrCode, isSending, failureCount, lastFailureTime,
                   ticks, qTimers, qSnapshot, sendPc,
                   consec, track, lastPane, envVars, queueVars, banVars,
                   isClosing, restart, capVars,
                   beatVars, pingVars, qrVars, jobVars>>

\* SessionManager.init: puppeteer.launch, newPage or page.goto throws.
SessionInitFail ==
    /\ boot = "constructed"
    /\ boot' = "initFailed"
    /\ state' = "DISCONNECTED"
    /\ \E b \in BOOLEAN, p \in BOOLEAN :
         /\ p => b
         /\ browser' = b
         /\ page' = p
         /\ (b /\ ~browser) => chromes < MaxChromes
         /\ chromes' = (IF b /\ ~browser THEN chromes + 1 ELSE chromes)
    /\ UNCHANGED <<qrCode, isSending, failureCount, lastFailureTime,
                   ticks, qTimers, qSnapshot, sendPc,
                   consec, track, lastPane, envVars, queueVars, banVars,
                   isClosing, restart, capVars,
                   beatVars, pingVars, qrVars, jobVars>>

\* monitorInterval callback up to its first await.
TickStart ==
    /\ boot = "running"
    /\ TicksInFlight < MaxTicks
    /\ IF state \in {"BANNED", "SUSPECTED_BAN"}
         THEN UNCHANGED <<state, failureCount, ticks>>
       ELSE IF state = "CIRCUIT_OPEN"
         THEN IF CooldownElapsed
                THEN /\ state' = "RECONNECTING"
                     /\ failureCount' = 0
                     /\ ticks' = TickBegin("reload")
                ELSE UNCHANGED <<state, failureCount, ticks>>
       ELSE IF state = "AUTHENTICATED"
         THEN /\ ticks' = IF isSending THEN ticks ELSE TickBegin("probe")
              /\ UNCHANGED <<state, failureCount>>
       ELSE /\ ticks' = TickBegin("checkQR")
            /\ UNCHANGED <<state, failureCount>>
    /\ consec' = IF state = "CIRCUIT_OPEN" /\ CooldownElapsed THEN 0 ELSE consec
    /\ UNCHANGED <<track, lastPane>>
    /\ UNCHANGED <<qrCode, isSending, lastFailureTime, boot, qTimers,
                   qSnapshot, sendPc, envVars,
                   queueVars, banVars, coordVars, capVars,
                   extVars>>

\* page.reload() of the half-open step returns or throws.
ReloadDone ==
    /\ ticks["reload"] > 0
    /\ ticks' = TickEnd("reload")
    /\ UNCHANGED <<state, qrCode, isSending, failureCount, lastFailureTime,
                   boot, qTimers, qSnapshot, sendPc,
                   consec, track, lastPane, envVars, queueVars, banVars, coordVars, capVars,
                   extVars>>

\* AUTHENTICATED branch, lines 165-169: page.$('#pane-side') returns (or
\* throws) and the tick ends.
ProbeDone ==
    /\ ticks["probe"] > 0
    /\ ticks' = TickEnd("probe")
    /\ \E threw, isAuth \in BOOLEAN :
         state' = IF ~threw /\ ~isAuth THEN "DISCONNECTED" ELSE state
    /\ UNCHANGED <<qrCode, isSending, failureCount, lastFailureTime,
                   boot, qTimers, qSnapshot, sendPc,
                   consec, track, lastPane, envVars, queueVars, banVars, coordVars, capVars,
                   extVars>>

\* checkQR, lines 68-95: its probes return (or throw, caught) and the tick
\* goes on to checkAuth.
CheckQRDone ==
    /\ ticks["checkQR"] > 0
    /\ ticks' = TickMove("checkQR", "checkAuth")
    /\ \E threw \in BOOLEAN, qrData \in 0..MaxQr :
         IF ~threw /\ qrData # 0 /\ qrData # qrCode
           THEN qrCode' = qrData /\ state' = "QR_PENDING"
           ELSE UNCHANGED <<qrCode, state>>
    /\ UNCHANGED <<isSending, failureCount, lastFailureTime,
                   boot, qTimers, qSnapshot, sendPc,
                   consec, track, lastPane, envVars, queueVars, banVars, coordVars, capVars,
                   extVars>>

\* checkAuth, lines 98-145: body text and #pane-side are sampled; either
\* quarantine starts (setTimeout, return) or #pane-side is sampled again and
\* authentication is detected.  The three probes are taken as returning
\* together: what they return is free, and the fields are read after them.
CheckAuthDone ==
    /\ ticks["checkAuth"] > 0
    /\ ticks' = TickEnd("checkAuth")
    /\ \E threw, hasMainPane, paneSide \in BOOLEAN :
         IF threw
           THEN /\ UNCHANGED <<state, qTimers, qrCode, failureCount>>
                /\ lastPane' = Sampled("none")
         ELSE IF BanSuspected(banText, hasMainPane, state)
           THEN /\ QuarantineInFlight < MaxTimers
                /\ state' = "SUSPECTED_BAN"
                /\ qTimers' = qTimers + 1
                /\ UNCHANGED <<qrCode, failureCount>>
                /\ lastPane' = Sampled("none")
         ELSE /\ lastPane' = Sampled(IF paneSide THEN "present" ELSE "absent")
              /\ IF PaneAuthenticates(paneSide, state)
                   THEN /\ state' = "AUTHENTICATED"
                        /\ qrCode' = QrAfterAuth(qrCode)
                        /\ failureCount' = 0
                        /\ UNCHANGED qTimers
                   ELSE UNCHANGED <<state, qTimers, qrCode, failureCount>>
    /\ UNCHANGED <<isSending, lastFailureTime, boot, qSnapshot, sendPc,
                   consec, track, envVars, queueVars, banVars, coordVars,
                   capVars, extVars>>

\* The 30 s quarantine timer has fired and its re-verification sample
\* returns, lines 116-132: ban confirmed (then awaits page.content()) or
\* cleared.
VerifySampled ==
    /\ qTimers > 0
    /\ qTimers' = qTimers - 1
    /\ state' = QuarantineOutcome(banText)
    /\ qSnapshot' = IF banText THEN qSnapshot + 1 ELSE qSnapshot
    /\ UNCHANGED <<qrCode, isSending, failureCount, lastFailureTime,
                   boot, ticks, sendPc,
                   consec, track, lastPane, envVars, queueVars, banVars, coordVars, capVars,
                   extVars>>

\* The state after the re-verification sample threw, as if the catch
\* cleared the suspicion.
ResampleThrew_Clears(s) == "INIT"

\* The state after the re-verification sample threw: the catch of line 133
\* is empty.
ResampleThrew(s) == s

\* The re-verification sample throws, line 133.
VerifyThrew ==
    /\ qTimers > 0
    /\ qTimers' = qTimers - 1
    /\ state' = ResampleThrew(state)
    /\ UNCHANGED <<qrCode, isSending, failureCount, lastFailureTime,
                   boot, ticks, qSnapshot, sendPc,
                   consec, track, lastPane, envVars, queueVars, banVars, coordVars, capVars,
                   extVars>>

\* page.content() returns, lines 126-128: emit('banned') runs the listener
\* of bootstrap up to its first await (redis SET wa:banned).
SnapshotDone ==
    /\ qSnapshot > 0
    /\ qSnapshot' = qSnapshot - 1
    /\ bannedH' = bannedH \cup {"setBanned"}
    /\ UNCHANGED <<state, qrCode, isSending, failureCount, lastFailureTime,
                   boot, ticks, qTimers, sendPc,
                   consec, track, lastPane, envVars, queueVars, banFlag, banHandled,
                   coordVars, capVars,
                   extVars>>

\* page.content() throws, line 133: nothing is emitted.
SnapshotThrew ==
    /\ qSnapshot > 0
    /\ qSnapshot' = qSnapshot - 1
    /\ UNCHANGED <<state, qrCode, isSending, failureCount, lastFailureTime,
                   boot, ticks, qTimers, sendPc,
                   consec, track, lastPane, envVars, queueVars, banVars, coordVars, capVars,
                   extVars>>



\* The fields of the SessionManager as one value.
Engine ==
    [state |-> state, qrCode |-> qrCode, failureCount |-> failureCount,
     lastFailureTime |-> lastFailureTime, isSending |-> isSending]

\* The status with the QR value in it.
GetStatus_Raw(e) ==
    [state |-> e.state, qrAvailable |-> e.qrCode # 0, qr |-> e.qrCode]

\* getStatus, lines 182-188 (sent as it is by GET /session-status).
GetStatus(e) == [state |-> e.state, qrAvailable |-> e.qrCode # 0]

\* The flag cleared only where sendMessage returns.
SendingAfter_OnReturn(threw) == threw

\* sendMessage's finally clause, line 271, on the return of line 265 and on
\* the rethrow of line 269 alike.
SendingAfter(threw) == FALSE

\* sendMessage is called (by the queue worker's processor, one call at a
\* time): lines 191-198.
SendCall ==
    /\ sendPc # "delivering"
    /\ LET err == SendGuard(state) IN
         IF err = "none"
           THEN isSending' = TRUE /\ sendPc' = "delivering"
           ELSE sendPc' = err /\ UNCHANGED isSending
    /\ UNCHANGED <<state, qrCode, failureCount, lastFailureTime,
                   boot, ticks, qTimers, qSnapshot, consec, track, lastPane, envVars, queueVars, banVars, coordVars, capVars,
                   extVars>>

\* The Delivery Protocol runs to its end, lines 263-265 and 271.
SendSucceed ==
    /\ sendPc = "delivering"
    /\ failureCount' = 0
    /\ isSending' = SendingAfter(FALSE)
    /\ sendPc' = "idle"
    /\ consec' = 0
    /\ UNCHANGED <<track, lastPane>>
    /\ UNCHANGED <<state, qrCode, lastFailureTime,
                   boot, ticks, qTimers, qSnapshot, envVars, queueVars, banVars, coordVars, capVars,
                   extVars>>

\* A step of the Delivery Protocol throws, lines 266-271, with handleFailure
\* (lines 275-282).
SendFail ==
    /\ sendPc = "delivering"
    /\ failureCount' = failureCount + 1
    /\ lastFailureTime' = DateNow
    /\ state' = TripState(failureCount + 1, state)
    /\ isSending' = SendingAfter(TRUE)
    /\ sendPc' = "idle"
    /\ consec' = IF track THEN Min(consec + 1, FAILURE_THRESHOLD) ELSE consec
    /\ UNCHANGED <<track, lastPane>>
    /\ UNCHANGED <<qrCode,
                   boot, ticks, qTimers, qSnapshot, envVars, queueVars, banVars, coordVars, capVars,
                   extVars>>

\* ----------------------------- bootstrap: 'restart_required' listener

\* JobQueue.pause up to its await, jobQueue.ts lines 117-118: the flag is
\* set and the worker stops fetching.
PauseCall ==
    /\ isPaused' = TRUE
    /\ workerPaused' = TRUE

\* JobQueue.resume, jobQueue.ts lines 123-127.
ResumeCall ==
    IF isPaused
      THEN isPaused' = FALSE /\ workerPaused' = FALSE
      ELSE UNCHANGED <<isPaused, workerPaused>>

\* A job is active in the worker: worker.pause() resolves when none is.
JobActive == wpc \notin {"idle", "fetching"} \/ sendPc = "delivering"

\* The listener with a restartBrowser that threw, as if the listener ended
\* with resume in a finally clause.
RestartOutcome_Finally(ok) == "returned"

\* restartBrowser seen from the listener, part_001 lines 67-70: it returns
\* and the listener goes on to resume, or it throws and the listener ends.
RestartOutcome(ok) == IF ok THEN "returned" ELSE "threw"

\* killGhostBrowsers, browserManager.ts lines 222-243: pkill ends every
\* chrome process, or ends none (no pkill in the image, another platform);
\* its failure is swallowed.
KillGhost(n, worked) == IF worked THEN 0 ELSE n

\* The listeners whose launch or page set-up is pending lose their chrome
\* process to a pkill that worked: the pending call will reject.
MarkKilled(r, worked) ==
    [g \in Handlers |->
       IF worked /\ r[g] \in {"launching", "newPage"} THEN "killed" ELSE r[g]]

\* The listener after restartBrowser: resume and end, or end by the throw;
\* a throw comes from init's catch, lines 93-100, which ran killGhostBrowsers.
AfterInit(h, ok, worked) ==
    /\ restart' = MarkKilled(
                     [restart EXCEPT ![h] =
                        IF RestartOutcome(ok) = "returned" THEN "idle"
                                                           ELSE "threw"],
                     worked)
    /\ IF RestartOutcome(ok) = "returned"
         THEN ResumeCall
         ELSE UNCHANGED <<isPaused, workerPaused>>

\* The listener after a restartBrowser without a pkill on the way.
AfterRestart(h, ok) == AfterInit(h, ok, FALSE)

\* The 'restart_required' listener of bootstrap up to its await of
\* worker.pause(), part_001 lines 62-64.
RestartListenerStart ==
    /\ \E h \in Handlers :
         /\ restart[h] = "idle"
         /\ \A g \in Handlers : restart[g] = "idle" => h <= g
         /\ restart' = [restart EXCEPT ![h] = "pausing"]
    /\ PauseCall

\* The listeners bootstrap registers, part_001 lines 54 and 62, by emitter
\* and event.
Listeners(emitter, event) ==
    IF emitter = "sessionManager" /\ event = "banned" THEN {"banned"}
    ELSE IF emitter = "browserManager" /\ event = "restart_required"
      THEN {"restart"}
    ELSE {}

\* bootstrap has passed lines 54-71 and the process has not exited.
ListenersRegistered ==
    boot \notin {"pinging", "backoff", "exited", "fatal"}

\* Memory watchdog tick with rss above 900 MB, browserManager.ts lines
\* 154-163: emit runs the listener up to its await of worker.pause().
WatchdogEmit ==
    /\ ~isClosing
    /\ ListenersRegistered
    /\ IF "restart" \in Listeners("browserManager", "restart_required")
         THEN RestartListenerStart
         ELSE UNCHANGED <<restart, isPaused, workerPaused>>
    /\ UNCHANGED <<sessVars, envVars, banVars, browser, page, isClosing,
                   capVars, extVars>>

\* Heartbeat interval callback, sessionManager.ts lines 55-58: the probe
\* page.evaluate('1') is started unless the state is BANNED or
\* DISCONNECTED.
HeartbeatStart ==
    /\ boot = "running"
    /\ heartbeats < MaxBeats
    /\ state \notin {"BANNED", "DISCONNECTED"}
    /\ heartbeats' = heartbeats + 1
    /\ UNCHANGED <<sessVars, envVars, queueVars, banVars, coordVars, capVars,
                   hbLast, pingVars, qrVars, jobVars, chromes>>

\* The probe returns or throws, lines 58-62: on a throw 'restart_required'
\* is emitted on the SessionManager.
HeartbeatDone ==
    /\ heartbeats > 0
    /\ heartbeats' = heartbeats - 1
    /\ \E threw \in BOOLEAN :
         /\ hbLast' = (IF threw THEN "threw" ELSE "ok")
         /\ IF threw /\ "restart" \in Listeners("sessionManager",
                                                 "restart_required")
              THEN RestartListenerStart
              ELSE UNCHANGED <<restart, isPaused, workerPaused>>
    /\ UNCHANGED <<sessVars, envVars, banVars, browser, page, isClosing,
                   capVars, pingVars, qrVars, jobVars, chromes>>

\* worker.pause() resolves; restartBrowser calls close, browserManager.ts
\* lines 110-118: browser.close() is awaited, or close returns at once
\* (isClosing), or there is no browser and close goes on to
\* killGhostBrowsers, lines 122-136; then isClosing is reset, line 171.
RestartPaused(h) ==
    /\ restart[h] = "pausing"
    /\ ~JobActive
    /\ IF ~isClosing /\ browser
         THEN /\ isClosing' = TRUE
              /\ restart' = [restart EXCEPT ![h] = "closing"]
              /\ UNCHANGED chromes
         ELSE /\ isClosing' = FALSE
              /\ \E worked \in BOOLEAN :
                   /\ isClosing => ~worked
                   /\ chromes' = KillGhost(chromes, worked)
                   /\ restart' = [MarkKilled(restart, worked)
                                    EXCEPT ![h] = "graceWait"]
    /\ UNCHANGED <<sessVars, envVars, queueVars, banVars, browser, page,
                   capVars, beatVars, pingVars, qrVars, jobVars>>

\* browser.close() returns or throws, lines 119-136 and 171: the process is
\* gone, the fields are cleared, killGhostBrowsers runs.
RestartClosed(h) ==
    /\ restart[h] = "closing"
    /\ browser' = FALSE
    /\ page' = FALSE
    /\ isClosing' = FALSE
    /\ \E worked \in BOOLEAN :
         /\ chromes' = KillGhost(IF chromes > 0 THEN chromes - 1 ELSE 0, worked)
         /\ restart' = [MarkKilled(restart, worked) EXCEPT ![h] = "graceWait"]
    /\ UNCHANGED <<sessVars, envVars, queueVars, banVars, capVars,
                   beatVars, pingVars, qrVars, jobVars>>

\* The 2 s wait ends; init, lines 27-45: it returns at once when a browser
\* is there, else it runs killGhostBrowsers and calls puppeteer.launch.
RestartWaited(h) ==
    /\ restart[h] = "graceWait"
    /\ IF browser
         THEN AfterRestart(h, TRUE) /\ UNCHANGED chromes
         ELSE /\ \E worked \in BOOLEAN :
                   /\ chromes' = KillGhost(chromes, worked)
                   /\ restart' = [MarkKilled(restart, worked)
                                    EXCEPT ![h] = "launching"]
              /\ UNCHANGED <<isPaused, workerPaused>>
    /\ UNCHANGED <<sessVars, envVars, banVars, browser, page, isClosing,
                   capVars, beatVars, pingVars, qrVars, jobVars>>

\* puppeteer.launch returns or throws, lines 45-63 and 93-100.
RestartLaunched(h) ==
    /\ restart[h] = "launching"
    /\ \E ok \in BOOLEAN :
         IF ok
           THEN /\ chromes < MaxChromes
                /\ chromes' = chromes + 1
                /\ browser' = TRUE
                /\ restart' = [restart EXCEPT ![h] = "newPage"]
                /\ UNCHANGED <<isPaused, workerPaused>>
           ELSE /\ \E worked \in BOOLEAN :
                     /\ chromes' = KillGhost(chromes, worked)
                     /\ AfterInit(h, FALSE, worked)
                /\ UNCHANGED browser
    /\ UNCHANGED <<sessVars, envVars, banVars, page, isClosing, capVars,
                   beatVars, pingVars, qrVars, jobVars>>

\* browser.newPage and the page set-up return or throw, lines 63-100; then
\* restartBrowser returns and the listener resumes, part_001 lines 69-70.
RestartPageReady(h) ==
    /\ restart[h] = "newPage"
    /\ \E ok \in BOOLEAN :
         /\ page' = (IF ok THEN TRUE ELSE page)
         /\ IF ok
              THEN AfterRestart(h, TRUE) /\ UNCHANGED chromes
              ELSE \E worked \in BOOLEAN :
                     /\ chromes' = KillGhost(chromes, worked)
                     /\ AfterInit(h, FALSE, worked)
    /\ UNCHANGED <<sessVars, envVars, banVars, browser, isClosing, capVars,
                   beatVars, pingVars, qrVars, jobVars>>

\* The launch or the page set-up of a listener whose chrome process was
\* ended rejects, lines 93-100.
RestartKilled(h) ==
    /\ restart[h] = "killed"
    /\ \E worked \in BOOLEAN :
         /\ chromes' = KillGhost(chromes, worked)
         /\ AfterInit(h, FALSE, worked)
    /\ UNCHANGED <<sessVars, envVars, banVars, browser, page, isClosing,
                   capVars, beatVars, pingVars, qrVars, jobVars>>

\* ------------------------------------------- bootstrap: 'banned' listener

\* jobQueue.setBanned(true) returns; jobQueue.pause() runs up to its await
\* of worker.pause().  part_001 lines 56-57, jobQueue.ts lines 117-118.
BannedSetDone ==
    /\ "setBanned" \in bannedH
    /\ \E last \in BOOLEAN :
         bannedH' = (IF last THEN bannedH \ {"setBanned"} ELSE bannedH)
                        \cup {"pausing"}
    /\ banFlag' = TRUE
    /\ PauseCall
    /\ UNCHANGED <<sessVars, envVars, banHandled, coordVars, capVars,
                   extVars>>

\* worker.pause() resolves once no job is active; the listener ends.
BannedPauseDone ==
    /\ "pausing" \in bannedH
    /\ ~JobActive
    /\ \E last \in BOOLEAN :
         bannedH' = IF last THEN bannedH \ {"pausing"} ELSE bannedH
    /\ banHandled' = TRUE
    /\ UNCHANGED <<sessVars, envVars, queueVars, banFlag, coordVars, capVars,
                   extVars>>

\* ---------------------------------------------------------- queue worker

Max(a, b) == IF a > b THEN a ELSE b

\* jobQueue.ts line 65.  The clock is day nowDay plus msOfDay milliseconds
\* and the start date is midnight of startDay, so the quotient
\* (now - startDate) / DayMs is taken on the two parts.
DaysSinceStart(nowDay, msOfDay, startDay) ==
    Max(0, (nowDay - startDay) + (msOfDay \div DayMs))

\* DynamicLimit without the hard cap.
DynamicLimit_Uncapped(daysSinceStart) == 100 + (daysSinceStart * 50)

\* jobQueue.ts line 68.
DynamicLimit(daysSinceStart) == Min(100 + (daysSinceStart * 50), 2000)

\* A redis counter: an absent key counts as 0 and INCR creates it.
Count(f, k) == IF k \in DOMAIN f THEN f[k] ELSE 0

Incr(f, k) ==
    [x \in DOMAIN f \cup {k} |-> IF x = k THEN Count(f, k) + 1 ELSE f[x]]

\* The limit of day d given the start date in redis (d itself if none).
LimitOn(d) ==
    DynamicLimit(DaysSinceStart(d, 0, IF startDate < 0 THEN d ELSE startDate))

\* The worker asks redis for the next job unless paused.
WorkerFetch ==
    /\ wpc = "idle"
    /\ ~workerPaused
    /\ wpc' = "fetching"
    /\ UNCHANGED <<sessVars, envVars, queueVars, banVars, coordVars, extVars,
                   day, wToday, wLimit, startDate, dailyCount, handed>>

\* A job attempt (first or retry) reaches the processor, lines 41-57: it
\* returns at once when isPaused, else it reads the date and asks for
\* wa:start-date.
JobStart ==
    /\ wpc = "fetching"
    /\ Count(dailyCount, day) < LimitOn(day) + MaxOver
    /\ IF isPaused
         THEN wpc' = "idle" /\ UNCHANGED wToday
         ELSE wpc' = "getStart" /\ wToday' = day
    /\ UNCHANGED <<sessVars, envVars, queueVars, banVars, coordVars, extVars,
                   day, wLimit, startDate, dailyCount, handed>>

\* GET wa:start-date returns, lines 57-70: the key is set to today if it
\* was absent; the limit is computed from the clock and INCR is sent.
StartDateRead ==
    /\ wpc = "getStart"
    /\ LET start == IF startDate < 0 THEN wToday ELSE startDate IN
         /\ startDate' = start
         /\ \E t \in {0, DayMs - 1} :
              wLimit' = DynamicLimit(DaysSinceStart(day, t, start))
    /\ wpc' = "incr"
    /\ UNCHANGED <<sessVars, envVars, queueVars, banVars, coordVars, extVars,
                   day, wToday, dailyCount, handed>>

\* INCR returns, lines 70-79: the attempt is rejected above the limit, else
\* handed to jobProcessor.
IncrDone ==
    /\ wpc = "incr"
    /\ LET currentCount == Count(dailyCount, wToday) + 1 IN
         /\ dailyCount' = Incr(dailyCount, wToday)
         /\ IF currentCount > wLimit
              THEN wpc' = "idle" /\ UNCHANGED handed
              ELSE /\ wpc' = "sending"
                   /\ handed' = Incr(handed, day)
    /\ UNCHANGED <<sessVars, envVars, queueVars, banVars, coordVars, extVars,
                   day, wToday, wLimit, startDate>>

\* jobProcessor returns or throws, line 79.
JobDone ==
    /\ wpc = "sending"
    /\ wpc' = "idle"
    /\ UNCHANGED <<sessVars, envVars, queueVars, banVars, coordVars, extVars,
                   day, wToday, wLimit, startDate, dailyCount, handed>>

\* A listener of bootstrap calls JobQueue.pause.
QueuePause ==
    /\ ~isPaused
    /\ PauseCall
    /\ UNCHANGED <<sessVars, envVars, banVars, coordVars, capVars,
                   extVars>>

\* A listener of bootstrap calls JobQueue.resume.
QueueResume ==
    /\ isPaused
    /\ ResumeCall
    /\ UNCHANGED <<sessVars, envVars, banVars, coordVars, capVars,
                   extVars>>

\* UTC midnight passes.
DayRoll ==
    /\ day < MaxDay
    /\ day' = day + 1
    /\ UNCHANGED <<sessVars, envVars, queueVars, banVars, coordVars, extVars,
                   wpc, wToday, wLimit, startDate, dailyCount, handed>>

\* ---------------------------------------------------------- environment

ClockTick ==
    /\ now < Epoch + MaxNow
    /\ now' = now + 1
    /\ UNCHANGED <<sessVars, banText, queueVars, banVars, coordVars, capVars,
                   extVars>>

\* The page changes what it shows.
DomChange ==
    /\ banText' = ~banText
    /\ UNCHANGED <<sessVars, now, queueVars, banVars, coordVars, capVars,
                   extVars>>

\* ------------------------------------------------ queue: job attempts
\* BullMQ as the code configures it: a job whose processor throws is
\* delayed and tried again while fewer than `attempts` attempts were made,
\* whatever the error; the worker keeps at most `concurrency` processors
\* running.

\* A worker that runs two processors at a time.
concurrency_Two == 1 + 1

\* Worker option, jobQueue.ts line 82.
concurrency == 1

Jobs == 1..MaxJobs
Slots == 1..concurrency

NewJob == [st |-> "waiting", made |-> 0, err |-> "none"]
FreeSlot == [job |-> 0, pc |-> "free"]

\* sendMessage between setting and clearing isSending, lines 198-271.
DeliveryPcs == {"delivering", "verifying", "fallback"}

\* The errors thrown inside sendMessage's try block.
DeliveryErrors == {"invalid", "transient"}

\* The job after a processor that threw: retry, or failed for good.
AttemptFailed(j, kind) ==
    [st |-> IF jobs[j].made + 1 < attempts THEN "delayed" ELSE "failed",
     made |-> jobs[j].made + 1,
     err |-> kind]

\* The job after a processor that returned.
AttemptCompleted(j) ==
    [st |-> "completed", made |-> jobs[j].made + 1, err |-> "none"]

JobsFrame ==
    UNCHANGED <<qrCode, boot, ticks, qTimers, qSnapshot, sendPc, consec,
                track, lastPane, envVars, banVars, coordVars, capVars,
                beatVars, pingVars, qrVars, chromes>>

\* The worker, unless paused, asks redis for the next job for a free slot.
Fetch(s) ==
    /\ ~workerPaused
    /\ run[s].pc = "free"
    /\ run' = [run EXCEPT ![s].pc = "fetching"]
    /\ UNCHANGED <<state, isSending, failureCount, lastFailureTime,
                   queueVars, jobs>>
    /\ JobsFrame

\* The request returns a waiting job and the worker runs the processor,
\* lines 41-57: it returns at once when isPaused (the job is completed),
\* else it starts the cap check.
Dequeue(s, j) ==
    /\ run[s].pc = "fetching"
    /\ jobs[j].st = "waiting"
    /\ IF isPaused
         THEN /\ jobs' = [jobs EXCEPT ![j] = AttemptCompleted(j)]
              /\ run' = [run EXCEPT ![s] = FreeSlot]
         ELSE /\ jobs' = [jobs EXCEPT ![j].st = "active"]
              /\ run' = [run EXCEPT ![s] = [job |-> j, pc |-> "processor"]]
    /\ UNCHANGED <<state, isSending, failureCount, lastFailureTime,
                   queueVars>>
    /\ JobsFrame

\* The cap check ends, lines 70-79 and sessionManager.ts lines 191-198:
\* 'Daily cap reached' is thrown, or sendMessage is called and throws the
\* error of its guard or sets isSending and starts navigating.
CapChecked(s) ==
    /\ run[s].pc = "processor"
    /\ \E capped \in BOOLEAN :
         LET err == IF capped THEN "Daily cap reached" ELSE SendGuard(state)
         IN IF err = "none"
              THEN /\ isSending' = TRUE
                   /\ run' = [run EXCEPT ![s].pc = "delivering"]
                   /\ UNCHANGED jobs
              ELSE /\ jobs' = [jobs EXCEPT
                                 ![run[s].job] = AttemptFailed(run[s].job, err)]
                   /\ run' = [run EXCEPT ![s] = FreeSlot]
                   /\ UNCHANGED isSending
    /\ UNCHANGED <<state, failureCount, lastFailureTime, queueVars>>
    /\ JobsFrame

\* Lines 207-245: the chat is open, the message typed and Enter pressed;
\* the 2 s wait and the search for the bubble follow.
EnterPressed(s) ==
    /\ run[s].pc = "delivering"
    /\ run' = [run EXCEPT ![s].pc = "verifying"]
    /\ UNCHANGED <<state, isSending, failureCount, lastFailureTime,
                   queueVars, jobs>>
    /\ JobsFrame

\* Lines 251-265: the bubble is there and sendMessage returns true, or it
\* is not and the send button is clicked, with a 3 s wait.
Verified(s) ==
    /\ run[s].pc = "verifying"
    /\ \E messageSent \in BOOLEAN :
         IF messageSent
           THEN /\ failureCount' = 0
                /\ isSending' = SendingAfter(FALSE)
                /\ jobs' = [jobs EXCEPT
                              ![run[s].job] = AttemptCompleted(run[s].job)]
                /\ run' = [run EXCEPT ![s] = FreeSlot]
           ELSE /\ run' = [run EXCEPT ![s].pc = "fallback"]
                /\ UNCHANGED <<failureCount, isSending, jobs>>
    /\ UNCHANGED <<state, lastFailureTime, queueVars>>
    /\ JobsFrame

\* The wait after the fallback click ends, lines 260-265 and 271.
FallbackDone(s) ==
    /\ run[s].pc = "fallback"
    /\ failureCount' = 0
    /\ isSending' = SendingAfter(FALSE)
    /\ jobs' = [jobs EXCEPT ![run[s].job] = AttemptCompleted(run[s].job)]
    /\ run' = [run EXCEPT ![s] = FreeSlot]
    /\ UNCHANGED <<state, lastFailureTime, queueVars>>
    /\ JobsFrame

\* A step of the Delivery Protocol throws, lines 266-271 with handleFailure:
\* the invalid-number popup of lines 219-227, or a timeout or DOM error at
\* any await.
DeliveryThrew(s, kind) ==
    /\ run[s].pc \in DeliveryPcs
    /\ kind = "invalid" => run[s].pc = "delivering"
    /\ failureCount' = failureCount + 1
    /\ lastFailureTime' = DateNow
    /\ state' = TripState(failureCount + 1, state)
    /\ isSending' = SendingAfter(TRUE)
    /\ jobs' = [jobs EXCEPT ![run[s].job] = AttemptFailed(run[s].job, kind)]
    /\ run' = [run EXCEPT ![s] = FreeSlot]
    /\ UNCHANGED queueVars
    /\ JobsFrame

\* The backoff delay of a failed attempt has passed.
BackoffElapsed(j) ==
    /\ jobs[j].st = "delayed"
    /\ jobs' = [jobs EXCEPT ![j].st = "waiting"]
    /\ UNCHANGED <<state, isSending, failureCount, lastFailureTime,
                   queueVars, run>>
    /\ JobsFrame

\* ------------------------------------------------- server: QR tokens
\* The handlers share the one ioredis connection of the JobQueue: commands
\* run in the order sent and their replies come back in that order.  A
\* command takes effect when sent, its reply is kept in the handler's
\* record, and redisQ holds the handlers awaiting a reply, oldest first.

IssueH(i) == [k |-> "issue", id |-> i]
ReadH(r) == [k |-> "read", id |-> r]

\* The reply at the head of the connection is for handler h.
ReplyFor(h) == redisQ # <<>> /\ Head(redisQ) = h

\* No request is in flight: the next one is sent after the last answer.
Quiet ==
    /\ redisQ = <<>>
    /\ \A i \in Issuers : issue[i].pc \in {"idle", "done"}
    /\ \A r \in Readers : reader[r].pc = "idle"

\* crypto.randomBytes(32), line 89: a token no request was given before.
FreshToken == 1 + Cardinality({j \in Issuers : issue[j].tok # 0})

\* The tokens handed to a client, line 101.
Issued == {issue[i].tok : i \in {j \in Issuers : issue[j].res = "token"}}

\* The token issued last: tokens are numbered in the order generated.
Latest ==
    IF Issued = {} THEN 0
    ELSE CHOOSE t \in Issued : \A u \in Issued : u <= t

\* The token key kept by a read.
Burn_Kept(keys, t) == keys

\* GET /qr line 122: DEL qr-token:<token>.
Burn(keys, t) == keys \ {t}

QrFrame ==
    UNCHANGED <<sessVars, envVars, queueVars, banVars, coordVars, capVars,
                beatVars, pingVars, qrSerial, adminKey, jobVars,
                chromes>>

\* Lines 89-92: the token is generated and GET wa:qr-token:active is sent;
\* q is the connection without this handler.
IssueToken(i, q) ==
    /\ issue' = [issue EXCEPT ![i] = [pc |-> "getActive",
                                      key |-> issue[i].key, n |-> 0,
                                      tok |-> FreshToken, old |-> qrActive,
                                      res |-> "none"]]
    /\ redisQ' = Append(q, IssueH(i))

\* Lines 71-92 with the usage count n in hand: 429 above the limit, the 5 s
\* wait when there is no QR, else the token.
AfterLimit(i, n, q) ==
    IF n > QrRateLimit
      THEN /\ issue' = [issue EXCEPT ![i].pc = "done", ![i].n = 0,
                                     ![i].res = "429"]
           /\ redisQ' = q
    ELSE IF qrCode = 0
      THEN /\ issue' = [issue EXCEPT ![i].pc = "waitQr", ![i].n = 0]
           /\ redisQ' = q
    ELSE IssueToken(i, q)

\* adminMiddleware, middleware.ts lines 85-103, for a request that passed
\* authMiddleware: with ADMIN_KEY set the header must equal it, without it
\* authMiddleware decides again and the header is not looked at.
AdminAdmits(k) == adminKey = 0 \/ k = adminKey

\* POST /admin/generate-qr-token with x-admin-key k, up to line 67: 403 from
\* adminMiddleware, or INCR of the rate-limit key of the header's hash and
\* the client address (one address here).
IssueCall(i, k) ==
    /\ issue[i].pc = "idle"
    /\ \A j \in Issuers : j < i => issue[j].pc # "idle"
    /\ qrSerial => Quiet
    /\ IF AdminAdmits(k)
         THEN /\ qrUsage' = Incr(qrUsage, k)
              /\ issue' = [issue EXCEPT ![i].pc = "incr", ![i].key = k,
                                        ![i].n = Count(qrUsage, k) + 1]
              /\ redisQ' = Append(redisQ, IssueH(i))
         ELSE /\ issue' = [issue EXCEPT ![i].pc = "done", ![i].key = k,
                                        ![i].res = "403"]
              /\ UNCHANGED <<qrUsage, redisQ>>
    /\ UNCHANGED <<qrActive, qrValid, reader, served>>
    /\ QrFrame

\* The count arrives, lines 68-92: the first request of the hour sends
\* EXPIRE.
IssueCounted(i) ==
    /\ issue[i].pc = "incr"
    /\ ReplyFor(IssueH(i))
    /\ IF issue[i].n = 1
         THEN /\ issue' = [issue EXCEPT ![i].pc = "expire"]
              /\ redisQ' = Append(Tail(redisQ), IssueH(i))
         ELSE AfterLimit(i, issue[i].n, Tail(redisQ))
    /\ UNCHANGED <<qrActive, qrValid, qrUsage, reader, served>>
    /\ QrFrame

\* EXPIRE is acknowledged, lines 70-92.
IssueExpireSet(i) ==
    /\ issue[i].pc = "expire"
    /\ ReplyFor(IssueH(i))
    /\ AfterLimit(i, issue[i].n, Tail(redisQ))
    /\ UNCHANGED <<qrActive, qrValid, qrUsage, reader, served>>
    /\ QrFrame

\* The 5 s wait ends, lines 81-92.
IssueWaited(i) ==
    /\ issue[i].pc = "waitQr"
    /\ IF qrCode = 0
         THEN /\ issue' = [issue EXCEPT ![i].pc = "done", ![i].res = "404"]
              /\ UNCHANGED redisQ
         ELSE IssueToken(i, redisQ)
    /\ UNCHANGED <<qrActive, qrValid, qrUsage, reader, served>>
    /\ QrFrame

\* The active token arrives, lines 93-98: DEL of the old token's key, or
\* SET of the active key at once.
IssueGotActive(i) ==
    /\ issue[i].pc = "getActive"
    /\ ReplyFor(IssueH(i))
    /\ IF issue[i].old # 0
         THEN /\ qrValid' = qrValid \ {issue[i].old}
              /\ issue' = [issue EXCEPT ![i].pc = "delOld"]
              /\ UNCHANGED qrActive
         ELSE /\ qrActive' = issue[i].tok
              /\ issue' = [issue EXCEPT ![i].pc = "setActive"]
              /\ UNCHANGED qrValid
    /\ redisQ' = Append(Tail(redisQ), IssueH(i))
    /\ UNCHANGED <<qrUsage, reader, served>>
    /\ QrFrame

\* The old key is deleted, lines 94-98: SET wa:qr-token:active.
IssueOldDeleted(i) ==
    /\ issue[i].pc = "delOld"
    /\ ReplyFor(IssueH(i))
    /\ qrActive' = issue[i].tok
    /\ issue' = [issue EXCEPT ![i].pc = "setActive"]
    /\ redisQ' = Append(Tail(redisQ), IssueH(i))
    /\ UNCHANGED <<qrValid, qrUsage, reader, served>>
    /\ QrFrame

\* The active key is set, lines 98-99: SET qr-token:<token>.
IssueActiveSet(i) ==
    /\ issue[i].pc = "setActive"
    /\ ReplyFor(IssueH(i))
    /\ qrValid' = qrValid \cup {issue[i].tok}
    /\ issue' = [issue EXCEPT ![i].pc = "setToken"]
    /\ redisQ' = Append(Tail(redisQ), IssueH(i))
    /\ UNCHANGED <<qrActive, qrUsage, reader, served>>
    /\ QrFrame

\* The token key is set, lines 99-105: the token is sent to the client.
IssueTokenSet(i) ==
    /\ issue[i].pc = "setToken"
    /\ ReplyFor(IssueH(i))
    /\ issue' = [issue EXCEPT ![i].pc = "done", ![i].res = "token"]
    /\ redisQ' = Tail(redisQ)
    /\ UNCHANGED <<qrActive, qrValid, qrUsage, reader, served>>
    /\ QrFrame

\* GET /qr?token=t with a token a client was given, lines 110-115.
ReadCall(r, t) ==
    /\ reader[r].pc = "idle"
    /\ t \in Issued
    /\ qrSerial => Quiet
    /\ reader' = [reader EXCEPT ![r] = [pc |-> "get", tok |-> t,
                                        valid |-> t \in qrValid,
                                        res |-> "none"]]
    /\ redisQ' = Append(redisQ, ReadH(r))
    /\ UNCHANGED <<qrActive, qrValid, qrUsage, issue, served>>
    /\ QrFrame

\* The key's value arrives, lines 117-122: 403, or DEL of the token key.
ReadGot(r) ==
    /\ reader[r].pc = "get"
    /\ ReplyFor(ReadH(r))
    /\ IF ~reader[r].valid
         THEN /\ reader' = [reader EXCEPT ![r].pc = "idle", ![r].res = "403"]
              /\ redisQ' = Tail(redisQ)
              /\ UNCHANGED qrValid
         ELSE /\ qrValid' = Burn(qrValid, reader[r].tok)
              /\ reader' = [reader EXCEPT ![r].pc = "delTok",
                                          ![r].valid = FALSE]
              /\ redisQ' = Append(Tail(redisQ), ReadH(r))
    /\ UNCHANGED <<qrActive, qrUsage, issue, served>>
    /\ QrFrame

\* The token key is deleted, line 123: DEL wa:qr-token:active.
ReadBurned(r) ==
    /\ reader[r].pc = "delTok"
    /\ ReplyFor(ReadH(r))
    /\ qrActive' = 0
    /\ reader' = [reader EXCEPT ![r].pc = "delActive"]
    /\ redisQ' = Append(Tail(redisQ), ReadH(r))
    /\ UNCHANGED <<qrValid, qrUsage, issue, served>>
    /\ QrFrame

\* The active key is deleted, lines 125-133: 404 without a QR, else the QR
\* is sent.
ReadServed(r) ==
    /\ reader[r].pc = "delActive"
    /\ ReplyFor(ReadH(r))
    /\ redisQ' = Tail(redisQ)
    /\ IF qrCode = 0
         THEN /\ reader' = [reader EXCEPT ![r].pc = "idle", ![r].res = "404"]
              /\ UNCHANGED served
         ELSE /\ reader' = [reader EXCEPT ![r].pc = "idle", ![r].res = "qr"]
              /\ served' = [served EXCEPT ![reader[r].tok] = @ + 1]
    /\ UNCHANGED <<qrActive, qrValid, qrUsage, issue>>
    /\ QrFrame

\* --------------------------------------------------- bootstrap: start

\* The process runs: neither process.exit(1) of line 39 nor that of the
\* catch of bootstrap, lines 101-104, was called.
Alive == boot \notin {"exited", "fatal"}

\* The delay with a step added instead of doubled.
NextDelay_Linear(d) == d + delay

\* part_001 line 42: delay *= 2.
NextDelay(d) == d * 2

\* connectRedisWithBackoff, lines 28-41: the ping of attempt pingTries
\* returns, and bootstrap goes on to createServer, the two listeners and
\* the read of the ban flag; or it throws, and the last attempt exits.
PingDone ==
    /\ boot = "pinging"
    /\ \E ok \in BOOLEAN :
         IF ok
           THEN /\ redisOk' = TRUE
                /\ boot' = "banCheck"
           ELSE /\ redisOk' = redisOk
                /\ boot' = (IF pingTries - 1 = retries - 1
                              THEN "exited" ELSE "backoff")
    /\ UNCHANGED <<state, qrCode, isSending, failureCount, lastFailureTime,
                   ticks, qTimers, qSnapshot, sendPc, consec, track,
                   lastPane, envVars, queueVars, banVars, coordVars,
                   capVars, beatVars, pingTries, pingDelay, qrVars, jobVars,
                   chromes>>

\* The wait of line 41 ends; line 42 doubles the delay and the loop sends
\* the next ping.
BackoffDone ==
    /\ boot = "backoff"
    /\ pingDelay' = NextDelay(pingDelay)
    /\ pingTries' = pingTries + 1
    /\ boot' = "pinging"
    /\ UNCHANGED <<state, qrCode, isSending, failureCount, lastFailureTime,
                   ticks, qTimers, qSnapshot, sendPc, consec, track,
                   lastPane, envVars, queueVars, banVars, coordVars,
                   capVars, beatVars, redisOk, qrVars, jobVars, chromes>>

\* jobQueue.isBanned() answers, lines 74-80: with the flag set bootstrap
\* returns, else it calls sessionManager.init(); a redis error rejects
\* bootstrap and its catch exits.
BanCheckDone ==
    /\ boot = "banCheck"
    /\ \E threw \in BOOLEAN :
         boot' = (IF threw THEN "fatal"
                  ELSE IF banFlag THEN "locked" ELSE "constructed")
    /\ UNCHANGED <<state, qrCode, isSending, failureCount, lastFailureTime,
                   ticks, qTimers, qSnapshot, sendPc, consec, track,
                   lastPane, envVars, queueVars, banVars, coordVars,
                   capVars, extVars>>

\* ------------------------------------------------------- specification

\* After the constructors of bootstrap, lines 16-24.
Init ==
    /\ state = "INIT"
    /\ qrCode = 0
    /\ isSending = FALSE
    /\ failureCount = 0
    /\ lastFailureTime = 0
    /\ boot = "constructed"
    /\ ticks = NoTicks
    /\ qTimers = 0
    /\ qSnapshot = 0
    /\ sendPc = "idle"
    /\ consec = 0
    /\ track = FALSE
    /\ now = Epoch
    /\ banText = FALSE
    /\ isPaused = FALSE
    /\ workerPaused = FALSE
    /\ banFlag = FALSE
    /\ bannedH = {}
    /\ banHandled = FALSE
    /\ browser = FALSE
    /\ page = FALSE
    /\ isClosing = FALSE
    /\ restart = [h \in Handlers |-> "idle"]
    /\ day = 0
    /\ wpc = "idle"
    /\ wToday = 0
    /\ wLimit = 0
    /\ startDate = -1
    /\ dailyCount = <<>>
    /\ handed = <<>>
    /\ lastPane = "off"
    /\ heartbeats = 0
    /\ hbLast = "none"
    /\ pingTries = 1
    /\ pingDelay = 1000
    /\ redisOk = TRUE
    /\ qrActive = 0
    /\ qrValid = {}
    /\ qrUsage = <<>>
    /\ issue = [i \in Issuers |-> IdleIssue]
    /\ reader = [r \in Readers |-> IdleRead]
    /\ redisQ = <<>>
    /\ served = [t \in Issuers |-> 0]
    /\ qrSerial = FALSE
    /\ adminKey = 1
    /\ jobs = <<>>
    /\ run = <<>>
    /\ chromes = 0

\* The session engine: polling ticks, quarantine, deliveries, the ban
\* listener; the page and the clock are free.
Next ==
    \/ SessionInitOk
    \/ SessionInitFail
    \/ TickStart
    \/ ReloadDone
    \/ ProbeDone
    \/ CheckQRDone
    \/ CheckAuthDone
    \/ VerifySampled
    \/ VerifyThrew
    \/ SnapshotDone
    \/ SnapshotThrew
    \/ SendCall
    \/ SendSucceed
    \/ SendFail
    \/ ClockTick
    \/ DomChange

Spec == Init /\ [][Next]_vars


\* The breaker on its own: the page never shows the ban text, and the
\* failures since the last success or cooldown reset are recorded.
InitBreaker ==
    /\ state = "INIT"
    /\ qrCode = 0
    /\ isSending = FALSE
    /\ failureCount = 0
    /\ lastFailureTime = 0
    /\ boot = "constructed"
    /\ ticks = NoTicks
    /\ qTimers = 0
    /\ qSnapshot = 0
    /\ sendPc = "idle"
    /\ consec = 0
    /\ track = TRUE
    /\ now = Epoch
    /\ banText = FALSE
    /\ isPaused = FALSE
    /\ workerPaused = FALSE
    /\ banFlag = FALSE
    /\ bannedH = {}
    /\ banHandled = FALSE
    /\ browser = FALSE
    /\ page = FALSE
    /\ isClosing = FALSE
    /\ restart = [h \in Handlers |-> "idle"]
    /\ day = 0
    /\ wpc = "idle"
    /\ wToday = 0
    /\ wLimit = 0
    /\ startDate = -1
    /\ dailyCount = <<>>
    /\ handed = <<>>
    /\ lastPane = "off"
    /\ heartbeats = 0
    /\ hbLast = "none"
    /\ pingTries = 1
    /\ pingDelay = 1000
    /\ redisOk = TRUE
    /\ qrActive = 0
    /\ qrValid = {}
    /\ qrUsage = <<>>
    /\ issue = [i \in Issuers |-> IdleIssue]
    /\ reader = [r \in Readers |-> IdleRead]
    /\ redisQ = <<>>
    /\ served = [t \in Issuers |-> 0]
    /\ qrSerial = FALSE
    /\ adminKey = 1
    /\ jobs = <<>>
    /\ run = <<>>
    /\ chromes = 0

NextBreaker ==
    \/ SessionInitOk
    \/ TickStart
    \/ ReloadDone
    \/ ProbeDone
    \/ CheckQRDone
    \/ CheckAuthDone
    \/ SendCall
    \/ SendSucceed
    \/ SendFail
    \/ ClockTick

SpecBreaker == InitBreaker /\ [][NextBreaker]_vars

\* The coordinator: the watchdog's restarts against a ban.  It starts in
\* the state of Spec in which checkAuth has just armed the quarantine timer
\* and no polling tick is in flight.
InitCoord ==
    /\ state = "SUSPECTED_BAN"
    /\ qrCode = 0
    /\ isSending = FALSE
    /\ failureCount = 0
    /\ lastFailureTime = 0
    /\ boot = "running"
    /\ ticks = NoTicks
    /\ qTimers = 1
    /\ qSnapshot = 0
    /\ sendPc = "idle"
    /\ consec = 0
    /\ track = FALSE
    /\ now = Epoch
    /\ banText = TRUE
    /\ isPaused = FALSE
    /\ workerPaused = FALSE
    /\ banFlag = FALSE
    /\ bannedH = {}
    /\ banHandled = FALSE
    /\ browser = TRUE
    /\ page = TRUE
    /\ isClosing = FALSE
    /\ restart = [h \in Handlers |-> "idle"]
    /\ day = 0
    /\ wpc = "idle"
    /\ wToday = 0
    /\ wLimit = 0
    /\ startDate = -1
    /\ dailyCount = <<>>
    /\ handed = <<>>
    /\ lastPane = "off"
    /\ heartbeats = 0
    /\ hbLast = "none"
    /\ pingTries = 1
    /\ pingDelay = 1000
    /\ redisOk = TRUE
    /\ qrActive = 0
    /\ qrValid = {}
    /\ qrUsage = <<>>
    /\ issue = [i \in Issuers |-> IdleIssue]
    /\ reader = [r \in Readers |-> IdleRead]
    /\ redisQ = <<>>
    /\ served = [t \in Issuers |-> 0]
    /\ qrSerial = FALSE
    /\ adminKey = 1
    /\ jobs = <<>>
    /\ run = <<>>
    /\ chromes = 1

NextCoord ==
    \/ VerifySampled
    \/ VerifyThrew
    \/ SnapshotDone
    \/ SnapshotThrew
    \/ DomChange
    \/ BannedSetDone
    \/ BannedPauseDone
    \/ WatchdogEmit
    \/ HeartbeatStart
    \/ HeartbeatDone
    \/ \E h \in Handlers : RestartPaused(h)
    \/ \E h \in Handlers : RestartClosed(h)
    \/ \E h \in Handlers : RestartWaited(h)
    \/ \E h \in Handlers : RestartLaunched(h)
    \/ \E h \in Handlers : RestartPageReady(h)
    \/ \E h \in Handlers : RestartKilled(h)

SpecCoord == InitCoord /\ [][NextCoord]_vars

\* The same with the timer of setTimeout sure to fire: an armed quarantine
\* timer runs its callback, whose sample returns or throws.
SpecQuarantine ==
    InitCoord /\ [][NextCoord]_vars /\ WF_vars(VerifySampled \/ VerifyThrew)

\* restartBrowser on its own: the session is running and logged in or
\* showing a QR, the watchdog finds the browser disconnected any number of
\* times, and each 'restart_required' listener runs to its end.
InitRestart ==
    /\ qrCode \in 0..MaxQr
    /\ state = (IF qrCode = 0 THEN "AUTHENTICATED" ELSE "QR_PENDING")
    /\ isSending = FALSE
    /\ failureCount = 0
    /\ lastFailureTime = 0
    /\ boot = "running"
    /\ ticks = NoTicks
    /\ qTimers = 0
    /\ qSnapshot = 0
    /\ sendPc = "idle"
    /\ consec = 0
    /\ track = FALSE
    /\ now = Epoch
    /\ banText = FALSE
    /\ isPaused = FALSE
    /\ workerPaused = FALSE
    /\ banFlag = FALSE
    /\ bannedH = {}
    /\ banHandled = FALSE
    /\ browser = TRUE
    /\ page = TRUE
    /\ isClosing = FALSE
    /\ restart = [h \in Handlers |-> "idle"]
    /\ day = 0
    /\ wpc = "idle"
    /\ wToday = 0
    /\ wLimit = 0
    /\ startDate = -1
    /\ dailyCount = <<>>
    /\ handed = <<>>
    /\ lastPane = "off"
    /\ heartbeats = 0
    /\ hbLast = "none"
    /\ pingTries = 1
    /\ pingDelay = 1000
    /\ redisOk = TRUE
    /\ qrActive = 0
    /\ qrValid = {}
    /\ qrUsage = <<>>
    /\ issue = [i \in Issuers |-> IdleIssue]
    /\ reader = [r \in Readers |-> IdleRead]
    /\ redisQ = <<>>
    /\ served = [t \in Issuers |-> 0]
    /\ qrSerial = FALSE
    /\ adminKey = 1
    /\ jobs = <<>>
    /\ run = <<>>
    /\ chromes = 1

NextRestart ==
    \/ WatchdogEmit
    \/ \E h \in Handlers : RestartPaused(h)
    \/ \E h \in Handlers : RestartClosed(h)
    \/ \E h \in Handlers : RestartWaited(h)
    \/ \E h \in Handlers : RestartLaunched(h)
    \/ \E h \in Handlers : RestartPageReady(h)
    \/ \E h \in Handlers : RestartKilled(h)

SpecRestart == InitRestart /\ [][NextRestart]_vars

\* The queue worker on its own: the session is running, jobProcessor is
\* whatever sendMessage does, and midnight may pass at any await.
InitCap ==
    /\ state = "INIT"
    /\ qrCode = 0
    /\ isSending = FALSE
    /\ failureCount = 0
    /\ lastFailureTime = 0
    /\ boot = "running"
    /\ ticks = NoTicks
    /\ qTimers = 0
    /\ qSnapshot = 0
    /\ sendPc = "idle"
    /\ consec = 0
    /\ track = FALSE
    /\ now = Epoch
    /\ banText = FALSE
    /\ isPaused = FALSE
    /\ workerPaused = FALSE
    /\ banFlag = FALSE
    /\ bannedH = {}
    /\ banHandled = FALSE
    /\ browser = TRUE
    /\ page = TRUE
    /\ isClosing = FALSE
    /\ restart = [h \in Handlers |-> "idle"]
    /\ day = 0
    /\ wpc = "idle"
    /\ wToday = 0
    /\ wLimit = 0
    /\ startDate = -1
    /\ dailyCount = <<>>
    /\ handed = <<>>
    /\ lastPane = "off"
    /\ heartbeats = 0
    /\ hbLast = "none"
    /\ pingTries = 1
    /\ pingDelay = 1000
    /\ redisOk = TRUE
    /\ qrActive = 0
    /\ qrValid = {}
    /\ qrUsage = <<>>
    /\ issue = [i \in Issuers |-> IdleIssue]
    /\ reader = [r \in Readers |-> IdleRead]
    /\ redisQ = <<>>
    /\ served = [t \in Issuers |-> 0]
    /\ qrSerial = FALSE
    /\ adminKey = 1
    /\ jobs = <<>>
    /\ run = <<>>
    /\ chromes = 1

NextCap ==
    \/ WorkerFetch
    \/ JobStart
    \/ StartDateRead
    \/ IncrDone
    \/ JobDone
    \/ QueuePause
    \/ QueueResume
    \/ DayRoll

SpecCap == InitCap /\ [][NextCap]_vars

\* The ramp: the processor computes the limit on each day of operation.
InitRamp ==
    /\ state = "INIT"
    /\ qrCode = 0
    /\ isSending = FALSE
    /\ failureCount = 0
    /\ lastFailureTime = 0
    /\ boot = "running"
    /\ ticks = NoTicks
    /\ qTimers = 0
    /\ qSnapshot = 0
    /\ sendPc = "idle"
    /\ consec = 0
    /\ track = FALSE
    /\ now = Epoch
    /\ banText = FALSE
    /\ isPaused = FALSE
    /\ workerPaused = FALSE
    /\ banFlag = FALSE
    /\ bannedH = {}
    /\ banHandled = FALSE
    /\ browser = TRUE
    /\ page = TRUE
    /\ isClosing = FALSE
    /\ restart = [h \in Handlers |-> "idle"]
    /\ day \in 0..MaxRampDays
    /\ wpc = "idle"
    /\ wToday = 0
    /\ wLimit = 0
    /\ startDate \in {-1, 0}
    /\ dailyCount = <<>>
    /\ handed = <<>>
    /\ lastPane = "off"
    /\ heartbeats = 0
    /\ hbLast = "none"
    /\ pingTries = 1
    /\ pingDelay = 1000
    /\ redisOk = TRUE
    /\ qrActive = 0
    /\ qrValid = {}
    /\ qrUsage = <<>>
    /\ issue = [i \in Issuers |-> IdleIssue]
    /\ reader = [r \in Readers |-> IdleRead]
    /\ redisQ = <<>>
    /\ served = [t \in Issuers |-> 0]
    /\ qrSerial = FALSE
    /\ adminKey = 1
    /\ jobs = <<>>
    /\ run = <<>>
    /\ chromes = 1

NextRamp ==
    \/ WorkerFetch
    \/ JobStart
    \/ StartDateRead

SpecRamp == InitRamp /\ [][NextRamp]_vars

\* The start of the process: bootstrap after its constructors, lines 16-24,
\* with the first ping sent and the persisted ban flag as the last run left
\* it.  The watchdog interval runs from the BrowserManager constructor on.
InitBoot ==
    /\ state = "INIT"
    /\ qrCode = 0
    /\ isSending = FALSE
    /\ failureCount = 0
    /\ lastFailureTime = 0
    /\ boot = "pinging"
    /\ ticks = NoTicks
    /\ qTimers = 0
    /\ qSnapshot = 0
    /\ sendPc = "idle"
    /\ consec = 0
    /\ track = FALSE
    /\ now = Epoch
    /\ banText = FALSE
    /\ isPaused = FALSE
    /\ workerPaused = FALSE
    /\ banFlag \in BOOLEAN
    /\ bannedH = {}
    /\ banHandled = FALSE
    /\ browser = FALSE
    /\ page = FALSE
    /\ isClosing = FALSE
    /\ restart = [h \in Handlers |-> "idle"]
    /\ day = 0
    /\ wpc = "idle"
    /\ wToday = 0
    /\ wLimit = 0
    /\ startDate = -1
    /\ dailyCount = <<>>
    /\ handed = <<>>
    /\ lastPane = "off"
    /\ heartbeats = 0
    /\ hbLast = "none"
    /\ pingTries = 1
    /\ pingDelay = delay
    /\ redisOk = FALSE
    /\ qrActive = 0
    /\ qrValid = {}
    /\ qrUsage = <<>>
    /\ issue = [i \in Issuers |-> IdleIssue]
    /\ reader = [r \in Readers |-> IdleRead]
    /\ redisQ = <<>>
    /\ served = [t \in Issuers |-> 0]
    /\ qrSerial = FALSE
    /\ adminKey = 1
    /\ jobs = <<>>
    /\ run = <<>>
    /\ chromes = 0

NextBoot ==
    \/ PingDone
    \/ BackoffDone
    \/ BanCheckDone
    \/ SessionInitOk
    \/ SessionInitFail
    \/ Alive /\ WatchdogEmit
    \/ Alive /\ \E h \in Handlers : RestartPaused(h)
    \/ Alive /\ \E h \in Handlers : RestartClosed(h)
    \/ Alive /\ \E h \in Handlers : RestartWaited(h)
    \/ Alive /\ \E h \in Handlers : RestartLaunched(h)
    \/ Alive /\ \E h \in Handlers : RestartPageReady(h)
    \/ Alive /\ \E h \in Handlers : RestartKilled(h)

SpecBoot == InitBoot /\ [][NextBoot]_vars

\* The QR token endpoints while the session stays where it is: at the login
\* screen with a QR, or without one.  All requests fall within the 60 s
\* lifetime of the keys and within one hour; the rate-limit counter of the
\* configured admin key is fresh or one request short of the limit; ADMIN_KEY
\* is set.  With qrSerial the clients send a request
\* only after the answer to the last one, without it requests overlap.
InitQr ==
    /\ state \in {"INIT", "QR_PENDING"}
    /\ qrCode = (IF state = "QR_PENDING" THEN 1 ELSE 0)
    /\ isSending = FALSE
    /\ failureCount = 0
    /\ lastFailureTime = 0
    /\ boot = "running"
    /\ ticks = NoTicks
    /\ qTimers = 0
    /\ qSnapshot = 0
    /\ sendPc = "idle"
    /\ consec = 0
    /\ track = FALSE
    /\ now = Epoch
    /\ banText = FALSE
    /\ isPaused = FALSE
    /\ workerPaused = FALSE
    /\ banFlag = FALSE
    /\ bannedH = {}
    /\ banHandled = FALSE
    /\ browser = TRUE
    /\ page = TRUE
    /\ isClosing = FALSE
    /\ restart = [h \in Handlers |-> "idle"]
    /\ day = 0
    /\ wpc = "idle"
    /\ wToday = 0
    /\ wLimit = 0
    /\ startDate = -1
    /\ dailyCount = <<>>
    /\ handed = <<>>
    /\ lastPane = "off"
    /\ heartbeats = 0
    /\ hbLast = "none"
    /\ pingTries = 1
    /\ pingDelay = 1000
    /\ redisOk = TRUE
    /\ qrActive = 0
    /\ qrValid = {}
    /\ qrUsage \in {<<>>, [k \in {1} |-> QrRateLimit - 1]}
    /\ issue = [i \in Issuers |-> IdleIssue]
    /\ reader = [r \in Readers |-> IdleRead]
    /\ redisQ = <<>>
    /\ served = [t \in Issuers |-> 0]
    /\ qrSerial \in BOOLEAN
    /\ adminKey = 1
    /\ jobs = <<>>
    /\ run = <<>>
    /\ chromes = 1

NextQr ==
    \/ \E i \in Issuers, k \in AdminKeys : IssueCall(i, k)
    \/ \E i \in Issuers : IssueCounted(i)
    \/ \E i \in Issuers : IssueExpireSet(i)
    \/ \E i \in Issuers : IssueWaited(i)
    \/ \E i \in Issuers : IssueGotActive(i)
    \/ \E i \in Issuers : IssueOldDeleted(i)
    \/ \E i \in Issuers : IssueActiveSet(i)
    \/ \E i \in Issuers : IssueTokenSet(i)
    \/ \E r \in Readers, t \in Issuers : ReadCall(r, t)
    \/ \E r \in Readers : ReadGot(r)
    \/ \E r \in Readers : ReadBurned(r)
    \/ \E r \in Readers : ReadServed(r)

SpecQr == InitQr /\ [][NextQr]_vars

\* The same endpoints in a deployment without ADMIN_KEY.
InitLimit ==
    /\ state \in {"INIT", "QR_PENDING"}
    /\ qrCode = (IF state = "QR_PENDING" THEN 1 ELSE 0)
    /\ isSending = FALSE
    /\ failureCount = 0
    /\ lastFailureTime = 0
    /\ boot = "running"
    /\ ticks = NoTicks
    /\ qTimers = 0
    /\ qSnapshot = 0
    /\ sendPc = "idle"
    /\ consec = 0
    /\ track = FALSE
    /\ now = Epoch
    /\ banText = FALSE
    /\ isPaused = FALSE
    /\ workerPaused = FALSE
    /\ banFlag = FALSE
    /\ bannedH = {}
    /\ banHandled = FALSE
    /\ browser = TRUE
    /\ page = TRUE
    /\ isClosing = FALSE
    /\ restart = [h \in Handlers |-> "idle"]
    /\ day = 0
    /\ wpc = "idle"
    /\ wToday = 0
    /\ wLimit = 0
    /\ startDate = -1
    /\ dailyCount = <<>>
    /\ handed = <<>>
    /\ lastPane = "off"
    /\ heartbeats = 0
    /\ hbLast = "none"
    /\ pingTries = 1
    /\ pingDelay = 1000
    /\ redisOk = TRUE
    /\ qrActive = 0
    /\ qrValid = {}
    /\ qrUsage \in {<<>>, [k \in {1} |-> QrRateLimit - 1]}
    /\ issue = [i \in Issuers |-> IdleIssue]
    /\ reader = [r \in Readers |-> IdleRead]
    /\ redisQ = <<>>
    /\ served = [t \in Issuers |-> 0]
    /\ qrSerial \in BOOLEAN
    /\ adminKey = 0
    /\ jobs = <<>>
    /\ run = <<>>
    /\ chromes = 1

SpecLimit == InitLimit /\ [][NextQr]_vars

\* The session engine of Spec with what checkAuth saw at line 138 on its
\* last run recorded in lastPane.
InitSignals ==
    /\ state = "INIT"
    /\ qrCode = 0
    /\ isSending = FALSE
    /\ failureCount = 0
    /\ lastFailureTime = 0
    /\ boot = "constructed"
    /\ ticks = NoTicks
    /\ qTimers = 0
    /\ qSnapshot = 0
    /\ sendPc = "idle"
    /\ consec = 0
    /\ track = FALSE
    /\ now = Epoch
    /\ banText = FALSE
    /\ isPaused = FALSE
    /\ workerPaused = FALSE
    /\ banFlag = FALSE
    /\ bannedH = {}
    /\ banHandled = FALSE
    /\ browser = FALSE
    /\ page = FALSE
    /\ isClosing = FALSE
    /\ restart = [h \in Handlers |-> "idle"]
    /\ day = 0
    /\ wpc = "idle"
    /\ wToday = 0
    /\ wLimit = 0
    /\ startDate = -1
    /\ dailyCount = <<>>
    /\ handed = <<>>
    /\ lastPane = "none"
    /\ heartbeats = 0
    /\ hbLast = "none"
    /\ pingTries = 1
    /\ pingDelay = 1000
    /\ redisOk = TRUE
    /\ qrActive = 0
    /\ qrValid = {}
    /\ qrUsage = <<>>
    /\ issue = [i \in Issuers |-> IdleIssue]
    /\ reader = [r \in Readers |-> IdleRead]
    /\ redisQ = <<>>
    /\ served = [t \in Issuers |-> 0]
    /\ qrSerial = FALSE
    /\ adminKey = 1
    /\ jobs = <<>>
    /\ run = <<>>
    /\ chromes = 0

SpecSignals == InitSignals /\ [][Next]_vars

\* The queue's attempts at its jobs: the session is running, authenticated
\* or not, the jobs were added before, and the coordinator may pause and
\* resume the queue at any time.
InitJobs ==
    /\ state \in {"AUTHENTICATED", "DISCONNECTED"}
    /\ qrCode = 0
    /\ isSending = FALSE
    /\ failureCount = 0
    /\ lastFailureTime = 0
    /\ boot = "running"
    /\ ticks = NoTicks
    /\ qTimers = 0
    /\ qSnapshot = 0
    /\ sendPc = "idle"
    /\ consec = 0
    /\ track = FALSE
    /\ now = Epoch
    /\ banText = FALSE
    /\ isPaused = FALSE
    /\ workerPaused = FALSE
    /\ banFlag = FALSE
    /\ bannedH = {}
    /\ banHandled = FALSE
    /\ browser = TRUE
    /\ page = TRUE
    /\ isClosing = FALSE
    /\ restart = [h \in Handlers |-> "idle"]
    /\ day = 0
    /\ wpc = "idle"
    /\ wToday = 0
    /\ wLimit = 0
    /\ startDate = -1
    /\ dailyCount = <<>>
    /\ handed = <<>>
    /\ lastPane = "off"
    /\ heartbeats = 0
    /\ hbLast = "none"
    /\ pingTries = 1
    /\ pingDelay = 1000
    /\ redisOk = TRUE
    /\ qrActive = 0
    /\ qrValid = {}
    /\ qrUsage = <<>>
    /\ issue = [i \in Issuers |-> IdleIssue]
    /\ reader = [r \in Readers |-> IdleRead]
    /\ redisQ = <<>>
    /\ served = [t \in Issuers |-> 0]
    /\ qrSerial = FALSE
    /\ adminKey = 1
    /\ jobs = [j \in Jobs |-> NewJob]
    /\ run = [s \in Slots |-> FreeSlot]
    /\ chromes = 1

NextJobs ==
    \/ \E s \in Slots : Fetch(s)
    \/ \E s \in Slots, j \in Jobs : Dequeue(s, j)
    \/ \E s \in Slots : CapChecked(s)
    \/ \E s \in Slots : EnterPressed(s)
    \/ \E s \in Slots : Verified(s)
    \/ \E s \in Slots : FallbackDone(s)
    \/ \E s \in Slots, kind \in DeliveryErrors : DeliveryThrew(s, kind)
    \/ \E j \in Jobs : BackoffElapsed(j)
    \/ QueuePause
    \/ QueueResume

SpecJobs == InitJobs /\ [][NextJobs]_vars

\* ------------------------------------------------------------- claims

\* C1: a call of sendMessage starts the delivery (isSending set, the page
\* touched) iff the state is AUTHENTICATED at the call; in any other state it
\* throws the error of that state, touches no page and leaves state,
\* failureCount, lastFailureTime and isSending as they were.
C1_AdmitIffAuthenticated ==
    [][(sendPc # "delivering" /\ sendPc' # sendPc) =>
          IF state = "AUTHENTICATED"
            THEN sendPc' = "delivering" /\ isSending'
            ELSE /\ sendPc' \in SendErrors
                 /\ (state = "CIRCUIT_OPEN") =
                        (sendPc' = "Circuit Open - Too many failures")
                 /\ (state = "BANNED") = (sendPc' = "Account BANNED")
                 /\ UNCHANGED <<state, failureCount, lastFailureTime,
                                isSending, ticks>>]_vars

\* C1 witness: a call made while CIRCUIT_OPEN has been rejected.
C1_Witness ==
    /\ state = "CIRCUIT_OPEN"
    /\ sendPc = "Circuit Open - Too many failures"
    /\ ~isSending

\* C2: once a ban was confirmed and the 'banned' listener has paused the
\* queue, the queue is paused in every later state.
C2_NeverResumedAfterBan == banHandled => isPaused

\* C3: BANNED is terminal: once the state is BANNED no step changes it.
C3_BannedTerminal == [][state = "BANNED" => state' = "BANNED"]_vars

\* C4: when the quarantine timer's re-verification sample executes, the
\* state after it is BANNED if the page still shows the ban text and INIT if
\* it does not; no step of the timer sets any other state, AUTHENTICATED
\* included.
C4_QuarantineOutcome ==
    [][/\ VerifySampled =>
            state' = (IF banText THEN "BANNED" ELSE "INIT")
       /\ qTimers' < qTimers =>
            /\ state' \in {state, IF banText THEN "BANNED" ELSE "INIT"}
            /\ (state' = "AUTHENTICATED" => state = "AUTHENTICATED")]_vars

\* C4 witness: the timer has confirmed a ban that the page still shows.
C4_Witness == state = "BANNED" /\ banText /\ qSnapshot > 0

\* C5: a delivery failure that is the 5th in a row (no success between
\* them) puts the state in CIRCUIT_OPEN and stamps lastFailureTime, one that
\* is not does not trip the breaker, and a success sets failureCount to 0.
C5_FiveFailuresTrip ==
    [][(sendPc = "delivering" /\ sendPc' = "idle") =>
          IF consec' = 0
            THEN failureCount' = 0
            ELSE /\ lastFailureTime' = DateNow
                 /\ (consec' >= FAILURE_THRESHOLD) = (state' = "CIRCUIT_OPEN")]_vars

\* C6: the state leaves CIRCUIT_OPEN only by the half-open step of a polling
\* tick, more than RESET_TIMEOUT after lastFailureTime, which sets
\* RECONNECTING and failureCount 0 and requests a page reload.
C6_OnlyCooldownLeavesOpen ==
    [][(state = "CIRCUIT_OPEN" /\ state' # "CIRCUIT_OPEN") =>
          /\ state' = "RECONNECTING"
          /\ failureCount' = 0
          /\ DateNow - lastFailureTime > RESET_TIMEOUT
          /\ ticks'["reload"] = ticks["reload"] + 1]_vars

\* C7: on no UTC day are more attempts handed to jobProcessor than that
\* day's limit.
C7_HandedWithinLimit == \A d \in DOMAIN handed : handed[d] <= LimitOn(d)

\* C8: the limit the processor computes on day daysActive of operation is
\* min(100 + 50 * daysActive, 2000): 100 on day 0, 150 on day 1, 2000 on
\* days 38 and 100; it never exceeds 2000 and never decreases from one day
\* to the next.
C8_Ramp ==
    /\ wpc = "incr" =>
         LET daysActive == day - startDate IN
           /\ wLimit = (IF 100 + 50 * daysActive < 2000
                          THEN 100 + 50 * daysActive ELSE 2000)
           /\ (daysActive = 0 => wLimit = 100)
           /\ (daysActive = 1 => wLimit = 150)
           /\ (daysActive = 38 => wLimit = 2000)
           /\ (daysActive = 100 => wLimit = 2000)
           /\ wLimit <= 2000
    /\ \A d \in 0..(MaxRampDays - 1) : DynamicLimit(d) <= DynamicLimit(d + 1)

\* C8 witness: the processor has computed the limit on day 38.
C8_Witness == wpc = "incr" /\ day - startDate = 38 /\ wLimit = 2000

\* C9: a 'restart_required' listener ends by its resume only at the return
\* of its own restartBrowser (the page set-up returned and the page is set,
\* or init found a browser), a listener whose restartBrowser threw takes no
\* further step, and nothing else clears isPaused.
C9_ResumeAfterRecreate ==
    [][/\ \A h \in Handlers :
            /\ (restart[h] # "idle" /\ restart'[h] = "idle") =>
                  \/ restart[h] = "newPage" /\ page'
                  \/ restart[h] = "graceWait" /\ browser
            /\ restart[h] = "threw" => restart'[h] = "threw"
       /\ (isPaused /\ ~isPaused') =>
            \E h \in Handlers : /\ restart[h] \in {"newPage", "graceWait"}
                                /\ restart'[h] = "idle"]_vars

\* C9 witness: one listener's restartBrowser threw, and the queue is paused
\* although another listener ran to its resume before.
C9_Witness ==
    /\ restart[1] = "threw"
    /\ restart[2] = "idle"
    /\ isPaused
    /\ browser /\ page

\* C10: while there is a listener whose restartBrowser threw, the queue is
\* paused and the worker takes no job.
C10_FailClosed ==
    (\E h \in Handlers : restart[h] = "threw") => (isPaused /\ workerPaused)

\* C11: when a heartbeat probe throws while the state is neither BANNED nor
\* DISCONNECTED, the emit starts a restart: the queue is paused at that very
\* step and a 'restart_required' listener is waiting for the worker.
C11_HeartbeatRestarts ==
    [][(/\ heartbeats' < heartbeats
        /\ hbLast' = "threw"
        /\ state \notin {"BANNED", "DISCONNECTED"}) =>
          /\ isPaused'
          /\ \E h \in Handlers : restart'[h] = "pausing"]_vars

\* C12: in a process started with the persisted ban flag set, once bootstrap
\* has returned at the ban check no browser is ever launched, whatever
\* happens later, a watchdog 'restart_required' included.
C12_LockedNoBrowser == boot = "locked" => ~browser

\* C17: init is not invoked before a ping of the store has succeeded; the
\* ping is attempted at most 5 times, the delay before attempt n+1 being
\* 1000 ms doubled n-1 times; and when the fifth ping fails the process
\* exits with the session machine untouched.
C17_PingBeforeInit ==
    /\ boot \in {"constructed", "running", "initFailed"} => redisOk
    /\ pingTries \in 1..retries
    /\ pingDelay = delay * 2^(pingTries - 1)
    /\ boot = "exited" =>
         /\ pingTries = retries
         /\ ~redisOk
         /\ state = "INIT" /\ ~browser /\ ticks = NoTicks

\* The fifth ping has failed after waits of 1, 2, 4 and 8 seconds.
C17_Witness == boot = "exited" /\ pingTries = 5 /\ pingDelay = 16000

\* C13: every entry into BANNED is followed by the emission of 'banned' (and
\* then the persisted flag and the paused queue): once BANNED is confirmed and
\* no quarantine timer or page capture is pending, the listener has been
\* started, so it is running or has already persisted the flag.
C13_BannedEmitted ==
    (state = "BANNED" /\ qTimers = 0 /\ qSnapshot = 0) =>
        (bannedH # {} \/ banFlag)

\* C14: with the QR available and each request sent after the answer to the
\* last, a read returns the QR exactly when its token is the one issued last
\* and was not read before, and counts as its one use; every other read, of a
\* token superseded by a later issuance or already read, fails with 403.
C14_SequentialLifecycle ==
    [][\A r \in Readers :
          (qrSerial /\ qrCode # 0 /\ reader[r].pc # "idle"
             /\ reader'[r].pc = "idle") =>
            LET t == reader[r].tok IN
              IF t = Latest /\ served[t] = 0
                THEN reader'[r].res = "qr" /\ served'[t] = 1
                ELSE reader'[r].res = "403" /\ served' = served]_vars

\* Token 1 was superseded unused by token 2 and its read failed; token 2 was
\* read once and its second read failed.
C14_Witness ==
    /\ qrSerial /\ qrCode # 0
    /\ served[1] = 0 /\ served[2] = 1
    /\ reader[1].tok = 1 /\ reader[1].res = "403" /\ reader[1].pc = "idle"
    /\ reader[2].tok = 2 /\ reader[2].res = "403" /\ reader[2].pc = "idle"

\* C15: at most one token key is present at any instant, however the store
\* operations of concurrent issuance requests interleave.
C15_OneValidToken == Cardinality(qrValid) <= 1

\* C16: of the concurrent reads that carry the same token at most one returns
\* the QR.
C16_SingleUse == \A t \in Issuers : served[t] <= 1

\* C18: every step that brings the state into AUTHENTICATED is the end of a
\* checkAuth run whose sample at line 138 saw #pane-side present; no other
\* step sets AUTHENTICATED.
C18_AuthenticatedBySample ==
    [][(state' = "AUTHENTICATED" /\ state # "AUTHENTICATED") =>
          /\ ticks'["checkAuth"] = ticks["checkAuth"] - 1
          /\ lastPane' = "present"]_vars

\* checkAuth has just authenticated the session on a sample with the pane.
C18_Witness ==
    /\ state = "AUTHENTICATED" /\ lastPane = "present" /\ qrCode = 0

\* The edges of the transition table.
C19_Table ==
    {<<"INIT", "QR_PENDING">>, <<"QR_PENDING", "AUTHENTICATED">>,
     <<"INIT", "AUTHENTICATED">>, <<"AUTHENTICATED", "DISCONNECTED">>,
     <<"SUSPECTED_BAN", "BANNED">>, <<"SUSPECTED_BAN", "INIT">>,
     <<"CIRCUIT_OPEN", "RECONNECTING">>}
      \cup {<<s, "SUSPECTED_BAN">> : s \in SessionState \ {"BANNED"}}
      \cup {<<s, "CIRCUIT_OPEN">> : s \in SessionState}

\* C19: every change of the session state is an edge of the transition
\* table; no other pair of old and new state occurs.
C19_OnlyTableEdges ==
    [][state' # state => <<state, state'>> \in C19_Table]_vars

\* C20: while a delivery is in progress (isSending set) no step changes the
\* state from AUTHENTICATED to DISCONNECTED, a polling tick that read the
\* flag before the delivery started included.
C20_NoDisconnectWhileSending ==
    [][(isSending /\ state = "AUTHENTICATED") => state' # "DISCONNECTED"]_vars

\* C21: in every reachable state in which no sendMessage call is executing
\* the delivery-in-progress flag isSending is false, whichever way the last
\* call ended.
C21_FlagCleared == sendPc # "delivering" => ~isSending

\* A delivery has failed (the counter shows it) and no call is executing.
C21_Witness ==
    sendPc = "idle" /\ failureCount > 0 /\ ~isSending /\ state = "AUTHENTICATED"

\* C22: sendMessage returns success (the attempt completes) only at the step
\* at which the confirmation evidence, the outgoing bubble, was observed;
\* after the one fallback submission, absent confirmation, it fails.
C22_SuccessNeedsEvidence ==
    [][\A s \in Slots :
          (run[s].pc \in DeliveryPcs
             /\ jobs'[run[s].job].st = "completed") =>
            run[s].pc = "verifying"]_vars

\* The error kinds that are terminal.
C23_Terminal ==
    {"invalid", "Session not authenticated", "Daily cap reached",
     "Circuit Open - Too many failures"}

\* C23: an attempt that fails with a terminal error kind is the job's last:
\* the job is failed, not put back for another attempt.
C23_TerminalNotRetried ==
    [][\A j \in Jobs :
          (jobs'[j].made = jobs[j].made + 1 /\ jobs'[j].err \in C23_Terminal)
            => jobs'[j].st = "failed"]_vars

C24_StatusRevealsOnly ==
    /\ GetStatus(Engine).qrAvailable = (qrCode # 0)
    /\ \A q \in 0..(MaxQr + 1), f \in {0, FAILURE_THRESHOLD},
          t \in {0, DateNow}, snd \in BOOLEAN :
         ((q # 0) <=> (qrCode # 0)) =>
           GetStatus([state |-> state, qrCode |-> q, failureCount |-> f,
                      lastFailureTime |-> t, isSending |-> snd])
             = GetStatus(Engine)

\* A QR is held and the status says so.
C24_Witness ==
    state = "QR_PENDING" /\ qrCode # 0 /\ GetStatus(Engine).qrAvailable = TRUE

\* The requests of this window that got past the limiter: those made
\* before (the counter's value less the requests counted here, at most the
\* limit under each key) and those here that went on after the check.
C25_Past ==
    LET here(k) == {i \in Issuers : issue[i].key = k /\ issue[i].res # "403"}
        before == [k \in AdminKeys |->
                     Min(Count(qrUsage, k) - Cardinality(here(k)),
                         QrRateLimit)]
    IN SumOver(before, AdminKeys)
         + Cardinality({i \in Issuers :
                          /\ issue[i].pc \notin {"idle", "incr", "expire"}
                          /\ issue[i].res \notin {"403", "429"}})

\* C25: within one window at most 5 issuance requests from the one client
\* address get past the limiter, whatever x-admin-key values they carry.
C25_FivePerAddress == C25_Past <= QrRateLimit

\* C27: at every instant at most one launched chrome process is alive,
\* whatever the interleaving of init, close and overlapping
\* 'restart_required' listeners.
C27_OneBrowser == chromes <= 1

\* C29: when a 'restart_required' listener ends by resuming the queue after
\* the browser was recreated, the session state is not AUTHENTICATED carried
\* over from the old browser.
C29_RebootstrapBeforeResume ==
    [][(\E h \in Handlers : restart[h] = "newPage" /\ restart'[h] = "idle")
         => state' # "AUTHENTICATED"]_vars

\* C28: when the re-verification sample of the quarantine timer throws, the
\* state stays SUSPECTED_BAN, 'banned' is not emitted (no listener run starts)
\* and the ban flag in Redis is left as it was.
C28_ThrowKeepsSuspicion ==
    [][VerifyThrew =>
         /\ (state = "SUSPECTED_BAN" => state' = "SUSPECTED_BAN")
         /\ bannedH' = bannedH
         /\ qSnapshot' = qSnapshot
         /\ banFlag' = banFlag]_vars

\* The sample threw: the timer is gone, the suspicion stands, nothing was
\* emitted.
C28_Witness ==
    /\ state = "SUSPECTED_BAN"
    /\ qTimers = 0
    /\ qSnapshot = 0
    /\ bannedH = {}
    /\ ~banFlag

\* C30: at most one quarantine timer (armed by checkAuth, not yet fired) is
\* outstanding at any time.
C30_OneQuarantineTimer == qTimers <= 1

\* C31: at every instant at which a 'restart_required' listener is closing
\* or recreating the browser, the queue is paused, also when two listeners
\* overlap.
C31_PausedWhileMutating ==
    (\E h \in Handlers : restart[h] \in {"closing", "launching", "newPage"})
       => (isPaused /\ workerPaused)

\* C32: failureCount changes only by +1 at a failed delivery, to 0 at a
\* successful delivery and to 0 at the cooldown reset out of CIRCUIT_OPEN,
\* and lastFailureTime changes only at a failed delivery; no other step,
\* the polling loop's detection of authentication included, writes them.
C32_OnlyBreakerWrites ==
    [][/\ failureCount' # failureCount =>
            \/ /\ sendPc = "delivering" /\ sendPc' = "idle"
               /\ failureCount' \in {failureCount + 1, 0}
            \/ /\ state = "CIRCUIT_OPEN" /\ state' = "RECONNECTING"
               /\ failureCount' = 0
       /\ lastFailureTime' # lastFailureTime =>
            /\ sendPc = "delivering" /\ sendPc' = "idle"
            /\ failureCount' = failureCount + 1]_vars

\* C33: while the state is SUSPECTED_BAN a step of the polling loop changes
\* neither the state nor the QR nor the failure count, and the state leaves
\* SUSPECTED_BAN only at a step of the re-verification timer, to BANNED or
\* INIT; this includes a tick that started before the quarantine.
C33_QuarantineSuppressesPolling ==
    [][state = "SUSPECTED_BAN" =>
         /\ ticks' # ticks => UNCHANGED <<state, qrCode, failureCount>>
         /\ state' # state =>
              /\ qTimers' = qTimers - 1
              /\ state' \in {"BANNED", "INIT"}]_vars

\* C34: a step of the quarantine timer changes the state only if the state
\* is still SUSPECTED_BAN when the timer fires; a timer that fires after the
\* state has moved elsewhere leaves it alone.
C34_TimerActsOnSuspicionOnly ==
    [][(qTimers' = qTimers - 1 /\ state # "SUSPECTED_BAN") =>
          state' = state]_vars

\* C35: a job becomes completed only at the return of a delivery that was
\* handed to the delivery processor; a job that reaches the processor while
\* isPaused is set is not completed.
C35_CompletedMeansDelivered ==
    [][\A j \in Jobs :
         (jobs[j].st # "completed" /\ jobs'[j].st = "completed") =>
            \E s \in Slots : /\ run[s].job = j
                             /\ run[s].pc \in {"verifying", "fallback"}]_vars

\* C36: whenever the state is AUTHENTICATED no QR value is held and the
\* status says qrAvailable false, after any polling ticks, overlapping ones
\* included.
C36_NoQrWhenAuthenticated ==
    state = "AUTHENTICATED" =>
       (qrCode = 0 /\ GetStatus(Engine).qrAvailable = FALSE)

\* Authentication was detected while another tick is still in its checkQR.
C36_Witness ==
    /\ state = "AUTHENTICATED"
    /\ ticks["checkQR"] > 0
    /\ GetStatus(Engine).qrAvailable = FALSE

C38_HandlesAgree ==
    (\A h \in Handlers : restart[h] \in {"idle", "pausing", "threw"})
       => (browser <=> page)

\* C39: quarantine always resolves: once the timer fires, every state with
\* SUSPECTED_BAN is followed by a state with BANNED or INIT, whatever the
\* re-verification sample does, a throw included.
C39_QuarantineResolves ==
    (state = "SUSPECTED_BAN") ~> (state \in {"BANNED", "INIT"})

=========================================================================
